---- MODULE Spec2Model ----
(***************************************************************************)
(* Model of HighLevelAnalyzer.py: the Saleae high level analyzer that      *)
(* decodes the SPI traffic of a VPC3 Profibus ASIC (HLA_SPI_MEMORY).       *)
(*                                                                         *)
(* One SPI analyzer delivers its frames (enable, result, disable) to       *)
(* HLA_SPI_MEMORY objects.  Several objects with different settings are    *)
(* attached to the same SPI analyzer, so that they see the same frames:    *)
(* hla[c] holds the attributes of the object constructed with the settings *)
(* c, and hla[c].returned what its last call of decode returned.  An       *)
(* exception leaves the attributes as assigned up to the raise; the        *)
(* object goes on receiving frames.                                        *)
(*                                                                         *)
(* Timestamps are natural numbers counting nanoseconds.  bytes objects of  *)
(* length one (frame.data['mosi'], the command) are numbers 0..255, longer *)
(* bytes objects are sequences of such numbers, str objects that the code  *)
(* parses are sequences of one-character strings.                          *)
(***************************************************************************)
EXTENDS Integers, Sequences, FiniteSets, TLC

(***************************************************************************)
(* Bounds of the model.                                                    *)
(***************************************************************************)
\* largest timestamp the SPI analyzer delivers
MaxTime == 7
\* where a result frame may have any extent, zero included: the largest
\* timestamp, and the largest number of result frames of a cycle
MaxAnyTime == 2
MaxBytes == 4

(***************************************************************************)
(* Module level constants of the source.                                   *)
(***************************************************************************)
STATE_START == 0
STATE_CMD == 1
STATE_ADDR_H == 2
STATE_ADDR_L == 3
STATE_DATA == 4
STATE_NO_DATA == 5

SPI_MEMORY_CMD_READ_BYTE == 19
SPI_MEMORY_CMD_READ_ARRAY == 3
SPI_MEMORY_CMD_WRITE_BYTE == 18
SPI_MEMORY_CMD_WRITE_ARRAY == 2

IDX_CMD_NAME == 0
IDX_NEXT_STATE == 1
IDX_LAST_STATE == 2
IDX_FILTER == 3
IDX_DATA_LINE == 4

\* the dict frame_config; a list of the source is a tuple here, so that the
\* element at the source's index i is the element i + 1
frame_config ==
    (SPI_MEMORY_CMD_READ_BYTE :>
        <<"Read Byte", STATE_ADDR_H, STATE_DATA, "READ_BYTE", "miso">>)
 @@ (SPI_MEMORY_CMD_READ_ARRAY :>
        <<"Read Array", STATE_ADDR_H, STATE_DATA, "READ_ARRAY", "miso">>)
 @@ (SPI_MEMORY_CMD_WRITE_BYTE :>
        <<"Write Byte", STATE_ADDR_H, STATE_DATA, "WRITE_BYTE", "mosi">>)
 @@ (SPI_MEMORY_CMD_WRITE_ARRAY :>
        <<"Write Array", STATE_ADDR_H, STATE_DATA, "WRITE_ARRAY", "mosi">>)

\* the class attribute filter_strings, the choices of filter_setting
filter_strings ==
    <<"no filter", "READ_BYTE", "READ_ARRAY", "WRITE_BYTE", "WRITE_ARRAY",
      "Timing_Violations", "Address">>

(***************************************************************************)
(* Python values that are no numbers.                                      *)
(***************************************************************************)
\* an attribute that no statement has assigned yet: reading it raises
\* AttributeError
Unset == 0 - 1
\* the value None
None == 0 - 2

(***************************************************************************)
(* Built-in conversions the code calls.                                    *)
(***************************************************************************)
HexDigits == <<"0", "1", "2", "3", "4", "5", "6", "7", "8", "9",
               "a", "b", "c", "d", "e", "f">>

\* the value of the digit character ch, 16 when ch is none
DigitValue(ch) ==
    IF \E i \in 1..16 : HexDigits[i] = ch
    THEN (CHOOSE i \in 1..16 : HexDigits[i] = ch) - 1
    ELSE IF ch = "A" THEN 10 ELSE IF ch = "B" THEN 11
    ELSE IF ch = "C" THEN 12 ELSE IF ch = "D" THEN 13
    ELSE IF ch = "E" THEN 14 ELSE IF ch = "F" THEN 15
    ELSE 16

RECURSIVE DigitsValue(_, _)
\* the number the digit characters s denote in the given base
DigitsValue(s, base) ==
    IF s = <<>> THEN 0
    ELSE DigitsValue(SubSeq(s, 1, Len(s) - 1), base) * base
            + DigitValue(s[Len(s)])

\* s is a non-empty run of digits of the given base
IsDigits(s, base) ==
    /\ s # <<>>
    /\ \A i \in 1..Len(s) : DigitValue(s[i]) < base

\* int(s, 0) for a str without sign, blanks and underscores: a literal with
\* the prefix 0x, 0o or 0b, or a decimal literal, which has no leading zero
\* unless it is all zeros; anything else raises ValueError
int_base0(s) ==
    LET rest == SubSeq(s, 3, Len(s))
        prefixed(p, q) == Len(s) >= 2 /\ s[1] = "0" /\ s[2] \in {p, q}
    IN  IF prefixed("x", "X")
        THEN IF IsDigits(rest, 16)
             THEN [raised |-> "none", value |-> DigitsValue(rest, 16)]
             ELSE [raised |-> "ValueError", value |-> 0]
        ELSE IF prefixed("o", "O")
        THEN IF IsDigits(rest, 8)
             THEN [raised |-> "none", value |-> DigitsValue(rest, 8)]
             ELSE [raised |-> "ValueError", value |-> 0]
        ELSE IF prefixed("b", "B")
        THEN IF IsDigits(rest, 2)
             THEN [raised |-> "none", value |-> DigitsValue(rest, 2)]
             ELSE [raised |-> "ValueError", value |-> 0]
        ELSE IF IsDigits(s, 10)
                 /\ (s[1] # "0" \/ \A i \in 1..Len(s) : s[i] = "0")
        THEN [raised |-> "none", value |-> DigitsValue(s, 10)]
        ELSE [raised |-> "ValueError", value |-> 0]

RECURSIVE HexString(_)
\* the hexadecimal digits of n, without prefix
HexString(n) ==
    IF n < 16 THEN HexDigits[n + 1]
    ELSE HexString(n \div 16) \o HexDigits[(n % 16) + 1]

\* hex(n) for n >= 0
hex(n) == "0x" \o HexString(n)

RECURSIVE BitOr(_, _)
\* a | b for a, b >= 0
BitOr(a, b) ==
    IF a = 0 THEN b
    ELSE IF b = 0 THEN a
    ELSE 2 * BitOr(a \div 2, b \div 2)
            + (IF a % 2 = 1 \/ b % 2 = 1 THEN 1 ELSE 0)

\* a shift to the left by 8 bits that keeps the lower 15 bits of its result
ShiftLeft8Keep15(b) == (b * 256) % 32768

\* int.from_bytes(b, 'big') << 8 for a bytes object of length one
ShiftLeft8(b) == b * 256

(***************************************************************************)
(* Settings of an object, and the frames it receives and produces.         *)
(***************************************************************************)
\* the three NumberSettings, as (timeCsToFirstByte, timeByteToByte,
\* timelastByteToCs): every setting takes every value, and the three differ
ThresholdChoices == {<<0, 1, 2>>, <<1, 2, 0>>, <<2, 0, 1>>}

\* the StringSetting address_setting: 0x0213 and 531 are the address 0x0213,
\* 0213 is no literal int(s, 0) accepts
AddressChoices ==
    {<<"0", "x", "0", "2", "1", "3">>, <<"5", "3", "1">>,
     <<"0", "2", "1", "3">>}

\* the settings of the objects of the model.  A setting that the code reads
\* only under one filter (the thresholds under Timing_Violations, the address
\* under Address) varies under that filter and has one value under the others.
Settings ==
    {c \in [filter_setting : {filter_strings[i] : i \in 1..Len(filter_strings)},
            address_setting : AddressChoices,
            highlight_cmd_only : {"no", "yes"},
            thresholds : ThresholdChoices] :
        /\ c.filter_setting # "Timing_Violations" => c.thresholds = <<0, 1, 2>>
        /\ c.filter_setting # "Address"
              => c.address_setting = <<"0", "x", "0", "2", "1", "3">>}

timeCsToFirstByte(c) == c.thresholds[1]
timeByteToByte(c) == c.thresholds[2]
timelastByteToCs(c) == c.thresholds[3]

\* AnalyzerFrame(type, start_time, end_time, data)
AnalyzerFrame(type, start_time, end_time, data) ==
    [type |-> type, start_time |-> start_time, end_time |-> end_time,
     data |-> data]

\* what a call of decode leaves behind: the object, with what the call
\* returned kept beside its attributes, as the frames returned (none, one, or
\* the list of three) and the exception raised, if any
Return(self, frames, raised) ==
    [self EXCEPT !.returned = [frames |-> frames, raised |-> raised]]

(***************************************************************************)
(* The methods of HLA_SPI_MEMORY.                                          *)
(***************************************************************************)
\* __init__ assigns no attribute: state = STATE_START is a local variable
NewObject ==
    [state |-> Unset, last_cs_asserted |-> Unset,
     last_start_time_byte |-> Unset, last_end_time_byte |-> Unset,
     last_cs_deasserted |-> Unset, command |-> Unset, address |-> Unset,
     data |-> <<>>, data_byte_cnt |-> Unset, showInstruction |-> Unset,
     timingViolation |-> "", cmd_frame_start |-> Unset,
     cmd_frame_end |-> Unset, address_frame_start |-> Unset,
     address_frame_end |-> Unset, data_frame_start |-> Unset,
     data_frame_end |-> Unset, showInfo |-> Unset,
     returned |-> [frames |-> <<>>, raised |-> "none"]]

cmd_to_str(command) ==
    IF command \in DOMAIN frame_config
    THEN frame_config[command][IDX_CMD_NAME + 1]
    ELSE "Unknown"

get_next_state(command) ==
    IF command \in DOMAIN frame_config
    THEN frame_config[command][IDX_NEXT_STATE + 1]
    ELSE STATE_NO_DATA

get_last_state(command) ==
    IF command \in DOMAIN frame_config
    THEN frame_config[command][IDX_LAST_STATE + 1]
    ELSE STATE_NO_DATA

\* the timestamps count nanoseconds, so the difference in seconds times 1e09
\* is the difference of the counts
calc_delta(timestampStart, timeStampEnd) ==
    IF timestampStart = 0 THEN 0
    ELSE timeStampEnd - timestampStart

\* show_cmd that answers 2 where the filter Address meets a command: the
\* caller then goes to STATE_NO_DATA
show_cmd_address_no_data(filter_name, command) ==
    IF filter_name = "no filter" THEN [raised |-> "none", value |-> 1]
    ELSE IF filter_name = "Timing_Violations"
    THEN [raised |-> "none", value |-> 0]
    ELSE IF command \notin DOMAIN frame_config
    THEN [raised |-> "KeyError", value |-> 0]
    ELSE IF filter_name = frame_config[command][IDX_FILTER + 1]
    THEN [raised |-> "none", value |-> 1]
    ELSE [raised |-> "none", value |-> 2]

\* frame_config[command] raises KeyError for a command that is no key; it is
\* evaluated only when the first two comparisons fail
show_cmd(filter_name, command) ==
    IF filter_name = "no filter" THEN [raised |-> "none", value |-> 1]
    ELSE IF filter_name = "Timing_Violations"
    THEN [raised |-> "none", value |-> 0]
    ELSE IF command \notin DOMAIN frame_config
    THEN [raised |-> "KeyError", value |-> 0]
    ELSE IF filter_name = frame_config[command][IDX_FILTER + 1]
    THEN [raised |-> "none", value |-> 1]
    ELSE IF filter_name = "Address" THEN [raised |-> "none", value |-> 3]
    ELSE [raised |-> "none", value |-> 2]

\* indicate_violation that leaves the time stamps of the last byte alone
indicate_violation_only(self, maxTiming, delta, framestart, frameend, start_time, end_time) ==
    Return(self,
           <<AnalyzerFrame("TimingViolation", framestart, frameend,
                           [delta_ns |-> delta, maxTiming |-> maxTiming])>>,
           "none")

indicate_violation(self, maxTiming, delta, framestart, frameend, start_time, end_time) ==
    Return([self EXCEPT !.last_end_time_byte = end_time,
                        !.last_start_time_byte = start_time],
           <<AnalyzerFrame("TimingViolation", framestart, frameend,
                           [delta_ns |-> delta, maxTiming |-> maxTiming])>>,
           "none")

(***************************************************************************)
(* decode, one operator per branch.  c is the object's settings.           *)
(***************************************************************************)
\* frame.type == 'enable'
decode_enable(c, self, frame) ==
    Return([self EXCEPT !.state = STATE_CMD,
                        !.last_cs_asserted = frame.start_time,
                        !.last_start_time_byte = 0,
                        !.last_end_time_byte = 0,
                        !.last_cs_deasserted = 0],
           <<>>, "none")

\* frame.type == 'result' and self.state == STATE_CMD
decode_cmd(c, self, frame) ==
    LET s1 == [self EXCEPT !.command = frame.data["mosi"],
                           !.address = None,
                           !.data = <<>>,
                           !.data_byte_cnt = 0,
                           !.showInstruction = 1,
                           !.timingViolation = "violation",
                           !.last_end_time_byte = frame.end_time,
                           !.last_start_time_byte = frame.start_time,
                           !.cmd_frame_start = frame.start_time,
                           !.cmd_frame_end = frame.end_time]
        s2 == [s1 EXCEPT !.state = get_next_state(s1.command)]
        shown == show_cmd(c.filter_setting, s2.command)
        s3 == [s2 EXCEPT !.showInstruction = shown.value]
        s4 == IF s3.showInstruction = 2
              THEN [s3 EXCEPT !.showInstruction = 0, !.state = STATE_NO_DATA]
              ELSE IF s3.showInstruction = 3
              THEN [s3 EXCEPT !.showInstruction = 0]
              ELSE s3
        delta == calc_delta(s4.last_cs_asserted, s4.last_start_time_byte)
    IN  IF shown.raised # "none" THEN Return(s2, <<>>, shown.raised)
        ELSE IF s4.showInstruction = 1 THEN Return(s4, <<>>, "none")
        ELSE IF /\ c.filter_setting = "Timing_Violations"
                /\ delta > timeCsToFirstByte(c)
        THEN indicate_violation(s4, timeCsToFirstByte(c), delta,
                                s4.last_cs_asserted, s4.last_start_time_byte,
                                frame.start_time, frame.end_time)
        ELSE Return(s4, <<>>, "none")

\* the check for timing violations that ends the branches STATE_ADDR_H,
\* STATE_ADDR_L and STATE_DATA, and the bookkeeping of the time stamps
check_byte_to_byte(c, self, frame) ==
    LET delta == calc_delta(self.last_end_time_byte, frame.start_time)
    IN  IF /\ c.filter_setting = "Timing_Violations"
           /\ delta > timeByteToByte(c)
        THEN indicate_violation(self, timeByteToByte(c), delta,
                                self.last_end_time_byte, frame.start_time,
                                frame.start_time, frame.end_time)
        ELSE Return([self EXCEPT !.last_end_time_byte = frame.end_time,
                                 !.last_start_time_byte = frame.start_time],
                    <<>>, "none")

\* frame.type == 'result' and self.state == STATE_ADDR_H
decode_addr_h(c, self, frame) ==
    check_byte_to_byte(c,
        [self EXCEPT !.address_frame_start = frame.start_time,
                     !.state = STATE_ADDR_L,
                     !.address = ShiftLeft8(frame.data["mosi"])],
        frame)

\* frame.type == 'result' and self.state == STATE_ADDR_L
decode_addr_l(c, self, frame) ==
    check_byte_to_byte(c,
        [self EXCEPT !.address = BitOr(self.address, frame.data["mosi"]),
                     !.state = get_last_state(self.command),
                     !.data_byte_cnt = 0,
                     !.address_frame_end = frame.end_time],
        frame)

\* decode_data with the payload read from mosi whatever the command
decode_data_mosi(c, self, frame) ==
    LET s1 == IF self.data_byte_cnt = 0
              THEN [self EXCEPT !.data_frame_start = frame.start_time]
              ELSE self
    IN  check_byte_to_byte(c,
            [s1 EXCEPT !.data_byte_cnt = self.data_byte_cnt + 1,
                       !.data = Append(self.data, frame.data["mosi"]),
                       !.data_frame_end = frame.end_time],
            frame)

\* frame.type == 'result' and self.state == STATE_DATA
decode_data(c, self, frame) ==
    LET s1 == IF self.data_byte_cnt = 0
              THEN [self EXCEPT !.data_frame_start = frame.start_time]
              ELSE self
        line == frame_config[self.command][IDX_DATA_LINE + 1]
    IN  check_byte_to_byte(c,
            [s1 EXCEPT !.data_byte_cnt = self.data_byte_cnt + 1,
                       !.data = Append(self.data, frame.data[line]),
                       !.data_frame_end = frame.end_time],
            frame)

\* decode_result with a branch for STATE_NO_DATA that checks the byte's timing
decode_result_checked(c, self, frame) ==
    IF self.state = STATE_CMD THEN decode_cmd(c, self, frame)
    ELSE IF self.state = STATE_ADDR_H THEN decode_addr_h(c, self, frame)
    ELSE IF self.state = STATE_ADDR_L THEN decode_addr_l(c, self, frame)
    ELSE IF self.state = STATE_DATA THEN decode_data(c, self, frame)
    ELSE check_byte_to_byte(c, self, frame)

\* frame.type == 'result'; no branch handles STATE_NO_DATA
decode_result(c, self, frame) ==
    IF self.state = STATE_CMD THEN decode_cmd(c, self, frame)
    ELSE IF self.state = STATE_ADDR_H THEN decode_addr_h(c, self, frame)
    ELSE IF self.state = STATE_ADDR_L THEN decode_addr_l(c, self, frame)
    ELSE IF self.state = STATE_DATA THEN decode_data(c, self, frame)
    ELSE Return(self, <<>>, "none")

\* the Command frame of the disable branch
command_frame(self) ==
    AnalyzerFrame("Command", self.cmd_frame_start, self.cmd_frame_end,
                  [command |-> cmd_to_str(self.command)])

\* the Address frame of the disable branch
address_frame(self) ==
    AnalyzerFrame("Address", self.address_frame_start, self.address_frame_end,
                  [address |-> self.address, addressHex |-> hex(self.address)])

\* the Data frame of the disable branch
data_frame(self) ==
    AnalyzerFrame("Data", self.data_frame_start, self.data_frame_end,
                  [data |-> self.data])

\* address_matches with the setting read as hexadecimal digits, int(s, 16)
address_matches_hex(c, self) ==
    LET s == c.address_setting
        digits == IF Len(s) >= 2 /\ s[1] = "0" /\ s[2] \in {"x", "X"}
                  THEN SubSeq(s, 3, Len(s)) ELSE s
    IN  DigitsValue(digits, 16) = self.address

\* int(self.address_setting, 0) == self.address
address_matches(c, self) ==
    int_base0(c.address_setting).value = self.address

\* shown_frames without the test of highlight_cmd_only
shown_frames_all(c, self) ==
    <<command_frame(self), address_frame(self), data_frame(self)>>

\* shown_frames that leaves out the Data frame
shown_frames_no_data(c, self) ==
    IF c.highlight_cmd_only = "yes" THEN <<command_frame(self)>>
    ELSE <<command_frame(self), address_frame(self)>>

\* the frames the disable branch returns once self.showInfo is 1
shown_frames(c, self) ==
    IF c.highlight_cmd_only = "yes" THEN <<command_frame(self)>>
    ELSE <<command_frame(self), address_frame(self), data_frame(self)>>

\* frame.type == 'disable', any filter but Timing_Violations, STATE_DATA:
\* both values of highlight_cmd_only set self.showInfo the same way
decode_disable_data(c, self) ==
    LET parsed == int_base0(c.address_setting)
        s1 == [self EXCEPT !.showInfo =
                  IF c.filter_setting = "Address"
                  THEN IF address_matches(c, self) THEN 1 ELSE 0
                  ELSE 1]
    IN  IF c.filter_setting = "Address" /\ parsed.raised # "none"
        THEN Return(self, <<>>, parsed.raised)
        ELSE IF s1.showInfo # 1 THEN Return(s1, <<>>, "none")
        ELSE IF /\ c.highlight_cmd_only # "yes"
                /\ Unset \in {s1.data_frame_start, s1.data_frame_end}
        THEN Return(s1, <<>>, "AttributeError")
        ELSE Return(s1, shown_frames(c, s1), "none")

\* decode_disable where a timing check without violation goes on to the
\* frames of the other filters
decode_disable_fallthrough(c, self, frame) ==
    LET s1 == [self EXCEPT !.last_cs_deasserted = frame.start_time]
        delta == calc_delta(s1.last_end_time_byte, s1.last_cs_deasserted)
    IN  IF c.filter_setting = "Timing_Violations"
           /\ delta > timelastByteToCs(c)
        THEN indicate_violation(s1, timelastByteToCs(c), delta,
                                s1.last_end_time_byte,
                                s1.last_cs_deasserted,
                                frame.start_time, frame.end_time)
        ELSE IF s1.state = STATE_DATA THEN decode_disable_data(c, s1)
        ELSE Return(s1, <<>>, "none")

\* decode_disable that returns the frames in STATE_ADDR_L as well
decode_disable_addr_l(c, self, frame) ==
    LET s1 == [self EXCEPT !.last_cs_deasserted = frame.start_time]
        delta == calc_delta(s1.last_end_time_byte, s1.last_cs_deasserted)
    IN  IF c.filter_setting = "Timing_Violations"
        THEN IF delta > timelastByteToCs(c)
             THEN indicate_violation(s1, timelastByteToCs(c), delta,
                                     s1.last_end_time_byte,
                                     s1.last_cs_deasserted,
                                     frame.start_time, frame.end_time)
             ELSE Return(s1, <<>>, "none")
        ELSE IF s1.state \in {STATE_ADDR_L, STATE_DATA}
        THEN Return(s1, shown_frames(c, s1), "none")
        ELSE Return(s1, <<>>, "none")

\* frame.type == 'disable'
decode_disable(c, self, frame) ==
    LET s1 == [self EXCEPT !.last_cs_deasserted = frame.start_time]
        delta == calc_delta(s1.last_end_time_byte, s1.last_cs_deasserted)
    IN  IF c.filter_setting = "Timing_Violations"
        THEN IF delta > timelastByteToCs(c)
             THEN indicate_violation(s1, timelastByteToCs(c), delta,
                                     s1.last_end_time_byte,
                                     s1.last_cs_deasserted,
                                     frame.start_time, frame.end_time)
             ELSE Return(s1, <<>>, "none")
        ELSE IF s1.state = STATE_DATA THEN decode_disable_data(c, s1)
        ELSE Return(s1, <<>>, "none")

decode(c, self, frame) ==
    IF frame.type = "enable" THEN decode_enable(c, self, frame)
    ELSE IF frame.type = "result" THEN decode_result(c, self, frame)
    ELSE IF frame.type = "disable" THEN decode_disable(c, self, frame)
    ELSE Return(self, <<>>, "none")

(***************************************************************************)
(* The SPI analyzer and the objects attached to it.                        *)
(***************************************************************************)
VARIABLES
    hla,      \* hla[c]: the object with the settings c: its attributes, and
              \* in hla[c].returned what its last call of decode returned
    events    \* the frames delivered since the last enable frame, with it

vars == <<hla, events>>

\* the command bytes the bus master sends: the four commands and another byte
CommandBytes ==
    {SPI_MEMORY_CMD_READ_BYTE, SPI_MEMORY_CMD_READ_ARRAY,
     SPI_MEMORY_CMD_WRITE_BYTE, SPI_MEMORY_CMD_WRITE_ARRAY, 255}

\* the (mosi, miso) pairs of the bytes that follow the command byte
PayloadBytes == {<<2, 19>>, <<19, 2>>}

\* the frame delivered last
LastFrame == events[Len(events)]

\* chip select is active: an enable frame was delivered, and no disable frame
\* after it
Active == events # <<>> /\ LastFrame.type # "disable"

\* the end of the frame delivered last: frames arrive in chronological order
Now == IF events = <<>> THEN 0 ELSE LastFrame.end_time

\* the result frames delivered since the last enable frame
ByteFrames == SelectSeq(events, LAMBDA f : f.type = "result")

\* every object decodes the frame
Deliver(frame) ==
    hla' = [c \in DOMAIN hla |-> decode(c, hla[c], frame)]

\* the objects attached in one run: those of one filter, with all its
\* settings, and those without filter, whose frames the others' are compared to
Attached ==
    {{c \in Settings : c.filter_setting \in {f, "no filter"}} :
        f \in {c.filter_setting : c \in Settings} \ {"no filter"}}

Init ==
    /\ \E group \in Attached : hla = [c \in group |-> NewObject]
    /\ events = <<>>

\* chip select changes from inactive to active
Enable ==
    /\ ~Active
    /\ \E t \in Now..MaxTime :
          LET frame == AnalyzerFrame("enable", t, t, [mosi |-> None, miso |-> None])
          IN  /\ Deliver(frame)
              /\ events' = <<frame>>

\* a byte is exchanged while chip select is active; the eight clock periods
\* of a byte take one unit of time
Result ==
    /\ Active
    /\ \E start \in Now..(MaxTime - 1) : \E end \in {start + 1} :
       \E b \in IF ByteFrames = <<>>
                THEN {<<cmd, 0>> : cmd \in CommandBytes}
                ELSE PayloadBytes :
          LET frame == AnalyzerFrame("result", start, end,
                                     [mosi |-> b[1], miso |-> b[2]])
          IN  /\ Deliver(frame)
              /\ events' = Append(events, frame)

\* chip select changes from active to inactive
Disable ==
    /\ Active
    /\ \E t \in Now..MaxTime :
          LET frame == AnalyzerFrame("disable", t, t, [mosi |-> None, miso |-> None])
          IN  /\ Deliver(frame)
              /\ events' = Append(events, frame)

Next == Enable \/ Result \/ Disable

Spec == Init /\ [][Next]_vars

(***************************************************************************)
(* The same objects behind an SPI analyzer whose frames carry any          *)
(* timestamps that are in chronological order: a result frame may end when *)
(* it starts.                                                              *)
(***************************************************************************)
EnableAnyTime ==
    /\ ~Active
    /\ \E t \in Now..MaxAnyTime :
          LET frame == AnalyzerFrame("enable", t, t, [mosi |-> None, miso |-> None])
          IN  /\ Deliver(frame)
              /\ events' = <<frame>>

ResultAnyTime ==
    /\ Active
    /\ Len(ByteFrames) < MaxBytes
    /\ \E start \in Now..MaxAnyTime : \E end \in start..MaxAnyTime :
       \E b \in IF ByteFrames = <<>>
                THEN {<<cmd, 0>> : cmd \in CommandBytes}
                ELSE PayloadBytes :
          LET frame == AnalyzerFrame("result", start, end,
                                     [mosi |-> b[1], miso |-> b[2]])
          IN  /\ Deliver(frame)
              /\ events' = Append(events, frame)

DisableAnyTime ==
    /\ Active
    /\ \E t \in Now..MaxAnyTime :
          LET frame == AnalyzerFrame("disable", t, t, [mosi |-> None, miso |-> None])
          IN  /\ Deliver(frame)
              /\ events' = Append(events, frame)

NextAnyTime == EnableAnyTime \/ ResultAnyTime \/ DisableAnyTime

SpecAnyTime == Init /\ [][NextAnyTime]_vars

(***************************************************************************)
(* One object without filter behind an SPI analyzer whose address bytes    *)
(* take every value: the object is new, or has decoded a cycle before, and *)
(* receives a command byte and the two address bytes.                      *)
(***************************************************************************)
RECURSIVE Replay(_, _, _)
\* the object self after decode was called with the frames, one after the
\* other
Replay(c, self, frames) ==
    IF frames = <<>> THEN self
    ELSE Replay(c, decode(c, self, Head(frames)), Tail(frames))

\* a cycle that writes the bytes 19, 2 to the address 0xFFFF
EarlierCycle ==
    <<AnalyzerFrame("enable", 0, 0, [mosi |-> None, miso |-> None]),
      AnalyzerFrame("result", 0, 1,
                    [mosi |-> SPI_MEMORY_CMD_WRITE_ARRAY, miso |-> 0]),
      AnalyzerFrame("result", 1, 2, [mosi |-> 255, miso |-> 0]),
      AnalyzerFrame("result", 2, 3, [mosi |-> 255, miso |-> 0]),
      AnalyzerFrame("result", 3, 4, [mosi |-> 19, miso |-> 0]),
      AnalyzerFrame("result", 4, 5, [mosi |-> 2, miso |-> 0]),
      AnalyzerFrame("disable", 5, 5, [mosi |-> None, miso |-> None])>>

\* the values of a byte
ByteValues == 0..255

InitAddress ==
    /\ \E c \in Settings : \E before \in {<<>>, EarlierCycle} :
          /\ c.filter_setting = "no filter" /\ c.highlight_cmd_only = "no"
          /\ hla = (c :> Replay(c, NewObject, before))
    /\ events = <<>>

EnableAddress ==
    /\ events = <<>>
    /\ \E t \in {EarlierCycle[Len(EarlierCycle)].end_time} :
          LET frame == AnalyzerFrame("enable", t, t, [mosi |-> None, miso |-> None])
          IN  /\ Deliver(frame)
              /\ events' = <<frame>>

\* the command byte of a read or of a write, then the two address bytes
ResultAddress ==
    /\ Active
    /\ Len(ByteFrames) < 3
    /\ \E b \in IF ByteFrames = <<>>
                THEN {SPI_MEMORY_CMD_READ_BYTE, SPI_MEMORY_CMD_WRITE_ARRAY}
                ELSE ByteValues :
          LET frame == AnalyzerFrame("result", Now, Now + 1,
                                     [mosi |-> b, miso |-> 0])
          IN  /\ Deliver(frame)
              /\ events' = Append(events, frame)

NextAddress == EnableAddress \/ ResultAddress

SpecAddress == InitAddress /\ [][NextAddress]_vars

(***************************************************************************)
(* Vocabulary of the properties: the cycle as the SPI analyzer delivered   *)
(* it, and what the objects returned for the frame delivered last.         *)
(***************************************************************************)
\* the frames an object returned for the frame delivered last
Emitted(c) == hla[c].returned.frames

\* the exception its call of decode raised, "none" if it returned
Raised(c) == hla[c].returned.raised

\* the number of result frames of the cycle
NBytes == Len(ByteFrames)

\* the frame delivered last is the enable frame, the k-th result frame, the
\* disable frame of the cycle
AtEnable == events # <<>> /\ LastFrame.type = "enable"
AtResult == events # <<>> /\ LastFrame.type = "result"
AtByte(k) == events # <<>> /\ LastFrame.type = "result" /\ NBytes = k
AtDisable == events # <<>> /\ LastFrame.type = "disable"

\* the timestamp of the cycle's enable frame
Asserted == events[1].start_time

\* the cycle has a command byte, and it is one of the four commands
RecognizedCommand ==
    /\ NBytes >= 1
    /\ ByteFrames[1].data.mosi \in
          {SPI_MEMORY_CMD_READ_BYTE, SPI_MEMORY_CMD_READ_ARRAY,
           SPI_MEMORY_CMD_WRITE_BYTE, SPI_MEMORY_CMD_WRITE_ARRAY}

\* the cycle has a command byte, and it is none of the four commands
UnknownCommand == NBytes >= 1 /\ ~RecognizedCommand

\* the line that carries the payload of the cycle's command: device to host
\* for the two read commands, host to device for the two write commands
DeclaredLine ==
    IF ByteFrames[1].data.mosi \in
          {SPI_MEMORY_CMD_READ_BYTE, SPI_MEMORY_CMD_READ_ARRAY}
    THEN "miso" ELSE "mosi"

\* the address the second and third byte of the cycle carry
SentAddress == ByteFrames[2].data.mosi * 256 + ByteFrames[3].data.mosi

\* the payload bytes of the cycle, the fourth byte and those after it, in the
\* order of their arrival
SentPayload ==
    [i \in 1..(NBytes - 3) |-> ByteFrames[i + 3].data[DeclaredLine]]

\* the objects without filter, and the one that differs from c in this only
Unfiltered(c) ==
    [c EXCEPT !.filter_setting = "no filter",
              !.address_setting = <<"0", "x", "0", "2", "1", "3">>,
              !.thresholds = <<0, 1, 2>>]

\* every frame of fs is a TimingViolation frame
OnlyViolations(fs) == \A i \in 1..Len(fs) : fs[i].type = "TimingViolation"

(***************************************************************************)
(* C1.  Without filter and with mark-command-only = no, a cycle of a       *)
(* recognized command, two address bytes and one or more data bytes emits  *)
(* nothing at the assert and at the bytes, and at the deassert exactly the *)
(* list Command, Address, Data: Command over the command byte, Address     *)
(* with address = high * 256 + low from the start of the high byte to the  *)
(* end of the low byte, Data with all data bytes in arrival order from the *)
(* start of the first to the end of the last data byte.                    *)
(***************************************************************************)
C1_ThreeFrames ==
    \A c \in DOMAIN hla :
        (c.filter_setting = "no filter" /\ c.highlight_cmd_only = "no") =>
            /\ (AtEnable \/ (AtResult /\ RecognizedCommand))
                  => Emitted(c) = <<>> /\ Raised(c) = "none"
            /\ (AtDisable /\ RecognizedCommand /\ NBytes >= 4) =>
                  /\ Raised(c) = "none"
                  /\ Len(Emitted(c)) = 3
                  /\ Emitted(c)[1].type = "Command"
                  /\ Emitted(c)[1].start_time = ByteFrames[1].start_time
                  /\ Emitted(c)[1].end_time = ByteFrames[1].end_time
                  /\ Emitted(c)[2].type = "Address"
                  /\ Emitted(c)[2].data.address = SentAddress
                  /\ Emitted(c)[2].start_time = ByteFrames[2].start_time
                  /\ Emitted(c)[2].end_time = ByteFrames[3].end_time
                  /\ Emitted(c)[3].type = "Data"
                  /\ Emitted(c)[3].data.data = SentPayload
                  /\ Emitted(c)[3].start_time = ByteFrames[4].start_time
                  /\ Emitted(c)[3].end_time = ByteFrames[NBytes].end_time

\* a read cycle with two data bytes was deasserted, and the object without
\* filter returned its three frames
C1_Witness ==
    /\ AtDisable /\ RecognizedCommand /\ NBytes >= 5
    /\ DeclaredLine = "miso"
    /\ \E c \in DOMAIN hla :
          /\ c.filter_setting = "no filter" /\ c.highlight_cmd_only = "no"
          /\ Len(Emitted(c)) = 3

(***************************************************************************)
(* C2.  As stated: under every filter a cycle whose command byte is none   *)
(* of the four commands produces no frame at any of its events, except     *)
(* possibly one TimingViolation frame at the command byte; no frame at the *)
(* later bytes and none at the deassert.                                   *)
(***************************************************************************)
C2_NoFrameButAtCommand ==
    \A c \in DOMAIN hla :
        UnknownCommand =>
            /\ AtByte(1) => Len(Emitted(c)) <= 1 /\ OnlyViolations(Emitted(c))
            /\ ~AtByte(1) => Emitted(c) = <<>>

(***************************************************************************)
(* C2, amended.  Under every filter such a cycle produces no Command,      *)
(* Address or Data frame and no frame at the bytes after the command byte; *)
(* under Timing_Violations alone it may produce one TimingViolation frame  *)
(* at the command byte and one at the deassert, the latter for the         *)
(* last-byte-to-deassert budget.                                           *)
(***************************************************************************)
C2_NoFrameButViolations ==
    \A c \in DOMAIN hla :
        UnknownCommand =>
            /\ Len(Emitted(c)) <= 1 /\ OnlyViolations(Emitted(c))
            /\ Emitted(c) # <<>> =>
                  /\ c.filter_setting = "Timing_Violations"
                  /\ AtByte(1) \/ AtDisable
            /\ (AtDisable /\ Emitted(c) # <<>>) =>
                  Emitted(c)[1].data.maxTiming = timelastByteToCs(c)

\* a cycle with an unknown command and a byte after it was deasserted, and an
\* object with the filter Timing_Violations returned a frame for the deassert
C2_Witness ==
    /\ AtDisable /\ UnknownCommand /\ NBytes >= 2
    /\ \E c \in DOMAIN hla :
          /\ c.filter_setting = "Timing_Violations"
          /\ Emitted(c) # <<>>

(***************************************************************************)
(* C3.  Under every filter, decoding a command byte that is none of the    *)
(* four commands raises no error and leaves the machine in the state       *)
(* NoData.                                                                 *)
(***************************************************************************)
C3_UnknownCommandNoError ==
    \A c \in DOMAIN hla :
        (AtByte(1) /\ UnknownCommand) =>
            Raised(c) = "none" /\ hla[c].state = STATE_NO_DATA

(***************************************************************************)
(* C4.  Under Timing_Violations and with a recognized command, a byte      *)
(* consumed in the address-high, address-low or data state, that is the    *)
(* second or a later byte of the cycle, emits a TimingViolation frame if   *)
(* and only if G > T, for G = the byte's start - the end of the byte       *)
(* before it and T = the byte-to-byte threshold, and the frame carries     *)
(* delta_ns = G and max allowed = T; for all timestamps >= 0, the end      *)
(* timestamp 0 of the byte before included.                                *)
(***************************************************************************)
C4_ByteToByteViolation ==
    \A c \in DOMAIN hla :
        (/\ c.filter_setting = "Timing_Violations"
         /\ AtResult /\ NBytes >= 2 /\ RecognizedCommand) =>
            LET G == ByteFrames[NBytes].start_time
                        - ByteFrames[NBytes - 1].end_time
                T == timeByteToByte(c)
            IN  /\ Raised(c) = "none"
                /\ Emitted(c) # <<>> <=> G > T
                /\ Emitted(c) # <<>> =>
                      /\ Len(Emitted(c)) = 1
                      /\ Emitted(c)[1].type = "TimingViolation"
                      /\ Emitted(c)[1].data.delta_ns = G
                      /\ Emitted(c)[1].data.maxTiming = T

(***************************************************************************)
(* C5.  Under Timing_Violations, the deassert of a cycle with at least one *)
(* byte emits a TimingViolation frame if and only if the deassert's start  *)
(* - the end of the byte received last in the cycle exceeds the            *)
(* last-byte-to-deassert threshold, and the frame carries that difference. *)
(***************************************************************************)
C5_LastByteToDeassertViolation ==
    \A c \in DOMAIN hla :
        (/\ c.filter_setting = "Timing_Violations"
         /\ AtDisable /\ NBytes >= 1) =>
            LET G == LastFrame.start_time - ByteFrames[NBytes].end_time
            IN  /\ Emitted(c) # <<>> <=> G > timelastByteToCs(c)
                /\ Emitted(c) # <<>> =>
                      /\ Len(Emitted(c)) = 1
                      /\ Emitted(c)[1].type = "TimingViolation"
                      /\ Emitted(c)[1].data.delta_ns = G

(***************************************************************************)
(* C6.  Under Timing_Violations, the command byte, recognized or not,      *)
(* emits a TimingViolation frame if and only if its start - the assert     *)
(* timestamp exceeds the assert-to-first-byte threshold, and the frame     *)
(* carries that difference and that threshold; for every assert timestamp, *)
(* 0 included.                                                             *)
(***************************************************************************)
C6_AssertToFirstByteViolation ==
    \A c \in DOMAIN hla :
        (c.filter_setting = "Timing_Violations" /\ AtByte(1)) =>
            LET G == ByteFrames[1].start_time - Asserted
                T == timeCsToFirstByte(c)
            IN  /\ Emitted(c) # <<>> <=> G > T
                /\ Emitted(c) # <<>> =>
                      /\ Len(Emitted(c)) = 1
                      /\ Emitted(c)[1].type = "TimingViolation"
                      /\ Emitted(c)[1].data.delta_ns = G
                      /\ Emitted(c)[1].data.maxTiming = T

(***************************************************************************)
(* C7.  Under Timing_Violations no event of any cycle emits a Command,     *)
(* Address or Data frame, whatever the command, the address, the payload   *)
(* and mark-command-only: every frame emitted is a TimingViolation frame.  *)
(***************************************************************************)
C7_OnlyViolationFrames ==
    \A c \in DOMAIN hla :
        c.filter_setting = "Timing_Violations" => OnlyViolations(Emitted(c))

\* a cycle that reached the data state and got a data byte was deasserted: the
\* object without filter returned its frames, and of the objects with the
\* filter Timing_Violations one returned a frame and another returned none
C7_Witness ==
    /\ AtDisable /\ RecognizedCommand /\ NBytes >= 4
    /\ \E c \in DOMAIN hla :
          /\ c.filter_setting = "Timing_Violations"
          /\ hla[c].state = STATE_DATA
          /\ Emitted(c) = <<>>
          /\ Emitted(Unfiltered(c)) # <<>>
    /\ \E c \in DOMAIN hla :
          /\ c.filter_setting = "Timing_Violations"
          /\ Emitted(c) # <<>>

C9_CommandOnly ==
    \A c \in DOMAIN hla :
        (/\ c.highlight_cmd_only = "yes"
         /\ c.filter_setting # "Timing_Violations"
         /\ AtDisable /\ hla[c].state = STATE_DATA) =>
            LET twin == [c EXCEPT !.highlight_cmd_only = "no"]
                parsed == int_base0(c.address_setting)
                shown == \/ c.filter_setting # "Address"
                         \/ /\ parsed.raised = "none"
                            /\ parsed.value = SentAddress
            IN  /\ shown =>
                      /\ Len(Emitted(c)) = 1
                      /\ Emitted(c)[1].type = "Command"
                      /\ Emitted(c)[1].start_time = ByteFrames[1].start_time
                      /\ Emitted(c)[1].end_time = ByteFrames[1].end_time
                /\ ~shown => Emitted(c) = <<>>
                /\ Len(Emitted(twin)) = 3 =>
                      shown /\ Emitted(c) = <<Emitted(twin)[1]>>
                /\ Emitted(twin) = <<>> =>
                      ~shown \/ Raised(twin) = "AttributeError"

\* a cycle was deasserted in the data state: under the filter Address one
\* object with mark-command-only = yes returned the Command frame alone, where
\* its twin returned three frames, and another returned nothing
C9_Witness ==
    /\ AtDisable /\ RecognizedCommand /\ NBytes >= 4
    /\ \E c \in DOMAIN hla :
          /\ c.highlight_cmd_only = "yes"
          /\ c.filter_setting = "Address"
          /\ hla[c].state = STATE_DATA
          /\ Len(Emitted(c)) = 1
          /\ Len(Emitted([c EXCEPT !.highlight_cmd_only = "no"])) = 3
    /\ \E c \in DOMAIN hla :
          /\ c.highlight_cmd_only = "yes"
          /\ c.filter_setting = "Address"
          /\ hla[c].state = STATE_DATA
          /\ Emitted(c) = <<>>

(***************************************************************************)
(* C10.  Under the filter of a command category F and with a recognized    *)
(* command of the category C: if C = F, the cycle is decoded and emitted   *)
(* exactly as without filter; if C differs from F, the command byte forces *)
(* the machine to NoData and no event of the cycle emits a frame.          *)
(***************************************************************************)
C10_CategoryFilter ==
    \A c \in DOMAIN hla :
        (/\ c.filter_setting \in
                {"READ_BYTE", "READ_ARRAY", "WRITE_BYTE", "WRITE_ARRAY"}
         /\ RecognizedCommand) =>
            IF c.filter_setting
                  = frame_config[ByteFrames[1].data.mosi][IDX_FILTER + 1]
            THEN /\ hla[c].returned = hla[Unfiltered(c)].returned
                 /\ hla[c].state = hla[Unfiltered(c)].state
                 /\ hla[c].address = hla[Unfiltered(c)].address
                 /\ hla[c].data = hla[Unfiltered(c)].data
            ELSE hla[c].state = STATE_NO_DATA /\ Emitted(c) = <<>>

(***************************************************************************)
(* More vocabulary: the types of a list of frames.                         *)
(***************************************************************************)
\* the types of the frames fs, in their order
FrameTypes(fs) == [i \in 1..Len(fs) |-> fs[i].type]

(***************************************************************************)
(* C11.  Each cycle is decoded independently of the cycles before it: of   *)
(* two histories that end with the same cycle, here the history delivered  *)
(* and the cycle alone, delivered to an object with the same settings,     *)
(* every event of the cycle returns the same frames (types, payloads and   *)
(* timestamps) and raises the same; no value left over from an earlier     *)
(* cycle appears in what a later cycle returns.                            *)
(***************************************************************************)
C11_CycleIndependent ==
    \A c \in DOMAIN hla :
        events # <<>> =>
            hla[c].returned = Replay(c, NewObject, events).returned

(***************************************************************************)
(* C12.  Under a filter other than Timing_Violations, the frames a cycle   *)
(* emits over all its events are none, or Command alone (only with         *)
(* mark-command-only = yes), or Command, Address and Data (only with       *)
(* mark-command-only = no): the assert and the bytes emit nothing, and the *)
(* deassert emits one of these three lists, so never two frames of a type  *)
(* and never a part of the three.                                          *)
(***************************************************************************)
C12_FramesOfACycle ==
    \A c \in DOMAIN hla :
        c.filter_setting # "Timing_Violations" =>
            /\ (AtEnable \/ AtResult) => Emitted(c) = <<>>
            /\ AtDisable =>
                  /\ FrameTypes(Emitted(c)) \in
                        {<<>>, <<"Command">>, <<"Command", "Address", "Data">>}
                  /\ Len(Emitted(c)) = 1 => c.highlight_cmd_only = "yes"
                  /\ Len(Emitted(c)) = 3 => c.highlight_cmd_only = "no"

\* a cycle was deasserted in the data state: of the objects with the filter
\* Address one returned Command alone and another the three frames
C12_Witness ==
    /\ AtDisable /\ RecognizedCommand /\ NBytes >= 4
    /\ \E c \in DOMAIN hla :
          /\ c.filter_setting = "Address" /\ hla[c].state = STATE_DATA
          /\ FrameTypes(Emitted(c)) = <<"Command">>
    /\ \E c \in DOMAIN hla :
          /\ c.filter_setting = "Address" /\ hla[c].state = STATE_DATA
          /\ FrameTypes(Emitted(c)) = <<"Command", "Address", "Data">>

(***************************************************************************)
(* C13.  Address round trip: for every 16-bit value V, the byte V div 256  *)
(* decoded in the address-high state and then the byte V mod 256 decoded   *)
(* in the address-low state leave address = V, a value in 0..65535,        *)
(* whatever address held before, the address of an earlier cycle included. *)
(***************************************************************************)
C13_AddressRoundTrip ==
    \A c \in DOMAIN hla :
        (AtByte(3) /\ RecognizedCommand /\ Raised(c) = "none"
            /\ hla[c].state = STATE_DATA) =>
            /\ hla[c].address = SentAddress
            /\ hla[c].address \in 0..65535
            /\ hla[c].address \div 256 = ByteFrames[2].data.mosi
            /\ hla[c].address % 256 = ByteFrames[3].data.mosi

\* an object that decoded the address 0xFFFF in an earlier cycle has decoded
\* the bytes 0xA5 and 0x5A, and holds the address 0xA55A
C13_Witness ==
    /\ AtByte(3) /\ RecognizedCommand
    /\ ByteFrames[2].data.mosi = 165 /\ ByteFrames[3].data.mosi = 90
    /\ \E c \in DOMAIN hla :
          /\ hla[c].data_frame_end = EarlierCycle[Len(EarlierCycle)].end_time
          /\ hla[c].state = STATE_DATA
          /\ hla[c].address = 42330

(***************************************************************************)
(* C14.  Filtering and the reporting of violations do not disturb the      *)
(* parse: after every byte of a cycle with a recognized command, the       *)
(* state, the address and the payload under the filters Address,           *)
(* Timing_Violations and the category of the command are those of the      *)
(* object without filter: address-high after byte 1, address-low after     *)
(* byte 2, data after byte 3 and every later byte, whether or not the      *)
(* event returned a TimingViolation frame.                                 *)
(***************************************************************************)
C14_ParseUnaffected ==
    \A c \in DOMAIN hla :
        (/\ AtResult /\ RecognizedCommand
         /\ c.filter_setting \in
               {"no filter", "Address", "Timing_Violations",
                frame_config[ByteFrames[1].data.mosi][IDX_FILTER + 1]}) =>
            /\ Raised(c) = "none"
            /\ hla[c].state = IF NBytes = 1 THEN STATE_ADDR_H
                              ELSE IF NBytes = 2 THEN STATE_ADDR_L
                              ELSE STATE_DATA
            /\ hla[c].address = IF NBytes = 1 THEN None
                                ELSE IF NBytes = 2
                                THEN ByteFrames[2].data.mosi * 256
                                ELSE SentAddress
            /\ hla[c].data = IF NBytes >= 4 THEN SentPayload ELSE <<>>
            /\ hla[c].state = hla[Unfiltered(c)].state
            /\ hla[c].address = hla[Unfiltered(c)].address
            /\ hla[c].data = hla[Unfiltered(c)].data

\* a data byte was decoded: of the objects with the filter Timing_Violations
\* one returned a TimingViolation frame for it and another returned none, and
\* both are in the data state
C14_Witness ==
    /\ AtResult /\ RecognizedCommand /\ NBytes >= 4
    /\ \E c \in DOMAIN hla :
          /\ c.filter_setting = "Timing_Violations"
          /\ Emitted(c) # <<>>
          /\ hla[c].state = STATE_DATA
    /\ \E c \in DOMAIN hla :
          /\ c.filter_setting = "Timing_Violations"
          /\ Emitted(c) = <<>>
          /\ hla[c].state = STATE_DATA

(***************************************************************************)
(* C15.  After every byte decoded in the command, address-high,            *)
(* address-low or data state, the time stamps of the last byte are the     *)
(* start and the end of that byte, whether the event returned a            *)
(* TimingViolation frame or none.  The first byte of a cycle is decoded in *)
(* the command state; a later byte was decoded in one of the other three   *)
(* states exactly when it left the object in the address-low or the data   *)
(* state.                                                                  *)
(***************************************************************************)
C15_RollingReference ==
    \A c \in DOMAIN hla :
        (\/ AtByte(1)
         \/ AtResult /\ hla[c].state \in {STATE_ADDR_L, STATE_DATA}) =>
            /\ hla[c].last_start_time_byte = LastFrame.start_time
            /\ hla[c].last_end_time_byte = LastFrame.end_time

\* an address or data byte was decoded, and an object with the filter
\* Timing_Violations returned a TimingViolation frame for it; the byte before
\* it had another end
C15_Witness ==
    /\ AtResult /\ NBytes >= 2
    /\ \E c \in DOMAIN hla :
          /\ c.filter_setting = "Timing_Violations"
          /\ hla[c].state \in {STATE_ADDR_L, STATE_DATA}
          /\ Emitted(c) # <<>>
          /\ hla[c].last_end_time_byte = LastFrame.end_time
          /\ ByteFrames[NBytes - 1].end_time # LastFrame.end_time

(***************************************************************************)
(* C16.  The payload grows only by the bytes decoded in the data state,    *)
(* one per byte, in the order of their arrival, taken from the line the    *)
(* command declares (miso for Read Byte and Read Array, mosi for Write     *)
(* Byte and Write Array): at every event of a cycle, the payload is the    *)
(* sequence of the bytes of this cycle decoded in the data state, so its   *)
(* length is always their number, also when a violation is reported.       *)
(***************************************************************************)
C16_PayloadOfTheCycle ==
    \A c \in DOMAIN hla :
        events # <<>> =>
            hla[c].data = IF hla[c].state = STATE_DATA /\ NBytes >= 3
                          THEN SentPayload
                          ELSE <<>>

(***************************************************************************)
(* C17.  An assert, in any state, moves the object to the command state,   *)
(* resets the payload, and records its timestamp as the time stamps of the *)
(* last byte, so that the check at the deassert of a cycle without bytes   *)
(* is measured from the assert: under Timing_Violations such a deassert    *)
(* emits a TimingViolation frame if and only if deassert - assert exceeds  *)
(* the last-byte-to-deassert threshold.                                    *)
(***************************************************************************)
C17_AssertIsTheReference ==
    \A c \in DOMAIN hla :
        /\ AtEnable =>
              /\ hla[c].state = STATE_CMD
              /\ hla[c].data = <<>>
              /\ hla[c].last_start_time_byte = Asserted
              /\ hla[c].last_end_time_byte = Asserted
        /\ (AtDisable /\ NBytes = 0
                /\ c.filter_setting = "Timing_Violations") =>
              (Emitted(c) # <<>>
                  <=> LastFrame.start_time - Asserted > timelastByteToCs(c))

(***************************************************************************)
(* C18.  A byte received in the state NoData is inert under every filter:  *)
(* decode returns no frame and leaves every attribute as it was, the       *)
(* state, the command, the address, the payload, the spans of the frames   *)
(* and the time stamps of the last byte.                                   *)
(***************************************************************************)
C18_NoDataByteInert ==
    [][\A c \in DOMAIN hla :
          (/\ hla[c].state = STATE_NO_DATA
           /\ events' # <<>>
           /\ events'[Len(events')].type = "result") =>
              hla'[c] = [hla[c] EXCEPT
                            !.returned = [frames |-> <<>>, raised |-> "none"]]
      ]_vars

\* a byte after an unknown command was decoded by an object with the filter
\* Timing_Violations in the state NoData: the time stamps of the last byte
\* are still those of the command byte
C18_Witness ==
    /\ AtResult /\ NBytes >= 2 /\ UnknownCommand
    /\ \E c \in DOMAIN hla :
          /\ c.filter_setting = "Timing_Violations"
          /\ hla[c].state = STATE_NO_DATA
          /\ Emitted(c) = <<>>
          /\ hla[c].last_end_time_byte = ByteFrames[1].end_time
          /\ hla[c].last_end_time_byte # LastFrame.end_time

(***************************************************************************)
(* C19.  Every deassert completes without error, and every frame it emits  *)
(* has start <= end, both within the cycle, from the assert to the         *)
(* deassert; also the deassert of a cycle with a recognized command, the   *)
(* two address bytes and no data byte, in the first cycle and in later     *)
(* ones.  (Stated for the objects whose address setting is a literal that  *)
(* int accepts.)                                                           *)
(***************************************************************************)
C19_DeassertFramesInCycle ==
    \A c \in DOMAIN hla :
        (AtDisable /\ int_base0(c.address_setting).raised = "none") =>
            /\ Raised(c) = "none"
            /\ \A i \in 1..Len(Emitted(c)) :
                  /\ Emitted(c)[i].start_time <= Emitted(c)[i].end_time
                  /\ Asserted <= Emitted(c)[i].start_time
                  /\ Emitted(c)[i].end_time <= LastFrame.start_time

(***************************************************************************)
(* C20.  The types of the frames are divided by event and filter: a        *)
(* TimingViolation frame is emitted only under the filter                  *)
(* Timing_Violations, and then one per event at most; Command, Address and *)
(* Data frames are emitted only by a deassert, and only when the object is *)
(* in the data state at that deassert; an assert emits no frame.           *)
(***************************************************************************)
C20_FrameTypesByEvent ==
    \A c \in DOMAIN hla :
        /\ \A i \in 1..Len(Emitted(c)) :
              /\ Emitted(c)[i].type \in
                    {"TimingViolation", "Command", "Address", "Data"}
              /\ Emitted(c)[i].type = "TimingViolation" =>
                    /\ c.filter_setting = "Timing_Violations"
                    /\ Len(Emitted(c)) = 1
              /\ Emitted(c)[i].type # "TimingViolation" =>
                    /\ AtDisable
                    /\ hla[c].state = STATE_DATA
        /\ AtEnable => Emitted(c) = <<>>

\* a cycle in the data state was deasserted: an object with the filter
\* Timing_Violations returned a TimingViolation frame, and the object without
\* filter the three frames
C20_Witness ==
    /\ AtDisable
    /\ \E c \in DOMAIN hla :
          /\ c.filter_setting = "Timing_Violations"
          /\ FrameTypes(Emitted(c)) = <<"TimingViolation">>
    /\ \E c \in DOMAIN hla :
          /\ c.filter_setting = "no filter"
          /\ hla[c].state = STATE_DATA
          /\ FrameTypes(Emitted(c)) = <<"Command", "Address", "Data">>

====
